---- MODULE Spec2Model ----
(***************************************************************************)
(* A model of audio_analyzer/AudioAnalyzer.py: the AudioAnalyzer class,    *)
(* its configuration lookup, the model dispatch of calculate_predictions   *)
(* and the two aggregation modes of calculate_prediction_metric.           *)
(*                                                                         *)
(* Numbers.  Prediction values are fixed-point numbers in tenths, so the   *)
(* integer 5 stands for 0.5.  A float result (a mean, a ratio) is the      *)
(* exact fraction <<numerator, denominator>> in lowest terms, and the nan   *)
(* numpy gives for 0/0 is <<0, 0>>.  Rounding to float32 is left out.      *)
(*                                                                         *)
(* Strings that the code takes apart (descriptor names) are sequences of   *)
(* one-character strings; strings it only compares or concatenates are     *)
(* TLA+ strings, and a concatenation a + b is the pair <<a, b>>.           *)
(***************************************************************************)
EXTENDS Integers, Sequences, FiniteSets, TLC

\* ------------------------------------------------------------------ bounds

\* The largest number of segments (rows) of a prediction matrix.
MaxRows == 2

\* The largest number of descriptors in a file's tag pool.
MaxDescriptors == 2

\* The longest descriptor name, in characters.
MaxDescLen == 4

\* How often another party rewrites the configuration file during a run.
MaxRewrites == 1

\* The largest number of categories (columns) of a prediction matrix.
MaxCols == 2

\* ------------------------------------------------------- program constants

\* The classification threshold 0.5, in tenths.
Threshold == 5

\* The default value of the category argument.
DefaultCategory == 0

\* self.__model_path
ModelPath == "./models/"

\* ------------------------------------------------------------ value spaces

\* A name that may hold nothing (a local not yet bound, a call that has not
\* returned) holds Unbound, and Bound(v) once it holds v.
Unbound == <<>>
Bound(v) == <<v>>

\* The audio files an analyzer may be constructed on.
FilePaths == {"happy_male_voice.mp3", "sad_piano.mp3"}

\* The feature names a caller may ask for.
Features == {"danceability", "mood_happy"}

\* The (model, algorithm) pairs of a configuration entry: the four pairs the
\* match statements of calculate_predictions name, one with a model and one
\* with an algorithm that no case names.
ModelAlgorithmPairs ==
  ({"musicnn", "effnet"} \X {"regression", "classifier"})
    \cup {<<"vggish", "classifier">>, <<"musicnn", "ranking">>}

\* The graph file names an entry of the given kinds carries.
EmbeddingGraph(m) == <<"embedding", m, ".pb">>
PredictionGraph(m, a) == <<"prediction", m, a, ".pb">>

\* The entries a configuration file may hold under a feature name.
Entries ==
  { [model |-> ma[1], algorithm |-> ma[2],
     embedding_graph_filename |-> EmbeddingGraph(ma[1]),
     prediction_graph_filename |-> PredictionGraph(ma[1], ma[2])] :
    ma \in ModelAlgorithmPairs }

\* The contents of the configuration file: feature name -> entry, for some of
\* the feature names.
Configs == UNION { [K -> Entries] : K \in SUBSET Features }

\* The values of one prediction, in tenths: one equal to the threshold 0.5 and
\* one above it.
Values == {5, 6}

\* The prediction matrices: one row per segment, one column per category.
\* An ndarray of shape (n, ncols) keeps its column count when n = 0.
Matrices ==
  UNION { { [ncols |-> c, rows |-> r] :
            r \in UNION { [1..n -> [1..c -> Values]] : n \in 0..MaxRows } } :
          c \in 1..MaxCols }

\* The values of the category argument: the valid column indices, numpy's
\* negative index -1, and indices past the last column.
Categories == -1..MaxCols

\* The characters of a descriptor name.
Chars == {"a", "."}

\* The descriptor names of a tag pool: non-empty parts joined by dots, as in
\* "metadata.tags.album".
DescriptorNames ==
  { d \in UNION { [1..n -> Chars] : n \in 1..MaxDescLen } :
      /\ d[1] # "."
      /\ d[Len(d)] # "."
      /\ \A i \in 1..(Len(d) - 1) : ~(d[i] = "." /\ d[i + 1] = ".") }

\* Name p is a namespace of name q: q is p, a dot, and more.
IsNamespaceOf(p, q) ==
  /\ Len(p) < Len(q)
  /\ SubSeq(q, 1, Len(p)) = p
  /\ q[Len(p) + 1] = "."

\* The values a pool stores under a descriptor: a list of the tag's values,
\* here two, each told apart by its descriptor and its place.
PoolValues(name) == << <<name, "first">>, <<name, "second">> >>

\* The tag pools MetadataReader may return for a file: distinct descriptors in
\* the order descriptorNames() gives them, each with its list of values, and
\* none of them a namespace of another.
Pools ==
  { [i \in DOMAIN names |-> [name |-> names[i], values |-> PoolValues(names[i])]] :
    names \in { q \in UNION { [1..n -> DescriptorNames] : n \in 0..MaxDescriptors } :
                  \A i, j \in 1..Len(q) :
                    i # j => (q[i] # q[j] /\ ~IsNamespaceOf(q[i], q[j])) } }

\* ------------------------------------------------------------- arithmetic

RECURSIVE GCD(_, _)
GCD(a, b) == IF b = 0 THEN a ELSE GCD(b, a % b)

\* numpy's value for 0 / 0 and for the mean of no values (it warns and does
\* not raise).
NaN == <<0, 0>>

\* The float n / d as an exact fraction in lowest terms.
Divide(n, d) ==
  IF d = 0 THEN NaN ELSE LET g == GCD(n, d) IN <<n \div g, d \div g>>

RECURSIVE SumSeq(_)
SumSeq(s) == IF s = <<>> THEN 0 ELSE Head(s) + SumSeq(Tail(s))

\* len(predictions)
NRows(m) == Len(m.rows)

\* predictions[:, j] for a 1-based column j.
Column(m, j) == [i \in 1..NRows(m) |-> m.rows[i][j]]

\* ------------------------------------------------- outcomes of a function

\* A function either returns a value or raises an error.
Return(v) == [outcome |-> "return", value |-> Bound(v), error |-> "none"]
Raise(e) == [outcome |-> "raise", value |-> Unbound, error |-> e]

\* ------------------------------------------------------------ get_metadata

\* descriptor.split("."): the pieces between the dots, an empty piece where
\* two dots meet or the name starts or ends with one.
RECURSIVE Split(_)
Split(s) ==
  IF \A i \in 1..Len(s) : s[i] # "."
  THEN <<s>>
  ELSE LET d == CHOOSE i \in 1..Len(s) :
                  s[i] = "." /\ \A k \in 1..(i - 1) : s[k] # "."
       IN <<SubSeq(s, 1, d - 1)>> \o Split(SubSeq(s, d + 1, Len(s)))

\* descriptor.split(".")[-1]
MetadataKey(descriptor) == LET parts == Split(descriptor) IN parts[Len(parts)]

\* metadata_pool[descriptor][0]
MetadataValue(values) == values[1]

\* metadata[key] = value: a later assignment to a key replaces the earlier.
SetItem(d, k, v) == [x \in DOMAIN d \cup {k} |-> IF x = k THEN v ELSE d[x]]

\* The loop of get_metadata over the pool's descriptors, in their order.
RECURSIVE MetadataLoop(_, _, _)
MetadataLoop(pool, i, metadata) ==
  IF i > Len(pool)
  THEN metadata
  ELSE MetadataLoop(pool, i + 1,
         SetItem(metadata, MetadataKey(pool[i].name),
                 MetadataValue(pool[i].values)))

\* get_metadata(): the dictionary built from the file's tag pool.
GetMetadataDict(pool) == MetadataLoop(pool, 1, <<>>)

\* ------------------------------------------------------ construction, audio

\* MonoLoader(filename, sampleRate=16000, resampleQuality=4)(): the decoded
\* and resampled audio of the file, a value determined by the file.
SampleRate == 16000
ResampleQuality == 4
GetEssentiaAudio(path) ==
  [file |-> path, sampleRate |-> SampleRate, resampleQuality |-> ResampleQuality]

\* ------------------------------------------------------ configuration lookup

\* A lookup that takes the first entry of the file, whatever the key asked for.
GetFirstFeatureConfig(parameters, audio_feature) ==
  IF parameters = <<>>
  THEN Raise("KeyError")
  ELSE Return(parameters[CHOOSE k \in DOMAIN parameters : TRUE])

\* A lookup with a fallback: parameters.get(audio_feature, default).
GetAudioFeatureConfigOrDefault(parameters, audio_feature) ==
  IF audio_feature \in DOMAIN parameters
  THEN Return(parameters[audio_feature])
  ELSE Return([model |-> "musicnn", algorithm |-> "classifier",
               embedding_graph_filename |-> EmbeddingGraph("musicnn"),
               prediction_graph_filename |-> PredictionGraph("musicnn", "classifier")])

\* __get_audio_feature_config: parameters[audio_feature] of the loaded file,
\* a KeyError when the file has no such key.
GetAudioFeatureConfig(parameters, audio_feature) ==
  IF audio_feature \in DOMAIN parameters
  THEN Return(parameters[audio_feature])
  ELSE Raise("KeyError")

\* The configuration file after a lookup: it is opened for reading only.
ConfigAfterLookup(parameters) == parameters

\* ---------------------------------------------------------- model dispatch

\* f"{self.__model_path}{name}"
GraphPath(name) == <<ModelPath, name>>

\* A dispatch that loads the embedding model from the prediction graph file.
SelectEmbeddingModelFromPredictionGraph(audio_config) ==
  CASE audio_config.model = "musicnn" ->
         Bound([algo |-> "TensorflowPredictMusiCNN",
                graphFilename |-> GraphPath(audio_config.prediction_graph_filename),
                output |-> "model/dense/BiasAdd"])
    [] audio_config.model = "effnet" ->
         Bound([algo |-> "TensorflowPredictEffnetDiscogs",
                graphFilename |-> GraphPath(audio_config.prediction_graph_filename),
                output |-> "PartitionedCall:1"])
    [] OTHER -> Unbound

\* match audio_config["model"] (lines 62-68): the embedding model bound by the
\* matching case, and no binding when no case matches.
SelectEmbeddingModel(audio_config) ==
  CASE audio_config.model = "musicnn" ->
         Bound([algo |-> "TensorflowPredictMusiCNN",
                graphFilename |-> GraphPath(audio_config.embedding_graph_filename),
                output |-> "model/dense/BiasAdd"])
    [] audio_config.model = "effnet" ->
         Bound([algo |-> "TensorflowPredictEffnetDiscogs",
                graphFilename |-> GraphPath(audio_config.embedding_graph_filename),
                output |-> "PartitionedCall:1"])
    [] OTHER -> Unbound

\* A dispatch whose second case is a catch-all (case _), so that every
\* algorithm but "regression" gets the Softmax model.
SelectPredictionModelCatchAll(audio_config) ==
  CASE audio_config.algorithm = "regression" ->
         Bound([algo |-> "TensorflowPredict2D",
                graphFilename |-> GraphPath(audio_config.prediction_graph_filename),
                output |-> "model/Identity"])
    [] OTHER ->
         Bound([algo |-> "TensorflowPredict2D",
                graphFilename |-> GraphPath(audio_config.prediction_graph_filename),
                output |-> "model/Softmax"])

\* match audio_config["algorithm"] (lines 73-79).
SelectPredictionModel(audio_config) ==
  CASE audio_config.algorithm = "regression" ->
         Bound([algo |-> "TensorflowPredict2D",
                graphFilename |-> GraphPath(audio_config.prediction_graph_filename),
                output |-> "model/Identity"])
    [] audio_config.algorithm = "classifier" ->
         Bound([algo |-> "TensorflowPredict2D",
                graphFilename |-> GraphPath(audio_config.prediction_graph_filename),
                output |-> "model/Softmax"])
    [] OTHER -> Unbound

\* -------------------------------------------------------------- aggregation

\* np.mean(predictions, axis=1): the mean of every row.
RowMeans(m) ==
  [i \in 1..NRows(m) |-> Divide(SumSeq(m.rows[i]), m.ncols)]

\* np.mean(predictions, axis=0) as a tuple: the mean of every column.
ColumnMeans(m) ==
  [j \in 1..m.ncols |-> Divide(SumSeq(Column(m, j)), NRows(m))]

\* The 1-based column that numpy's predictions[:, category] selects: category
\* itself from 0 on, counted from the last column when negative; 0 stands for
\* an index out of bounds.
ColumnIndex(m, category) ==
  IF 0 <= category /\ category < m.ncols THEN category + 1
  ELSE IF -m.ncols <= category /\ category < 0 THEN m.ncols + category + 1
  ELSE 0

\* predictions[:, category] >= 0.5
AtOrOverThreshold(m, j) == {i \in 1..NRows(m) : m.rows[i][j] >= Threshold}

\* predictions[:, category] > 0.5: the rows over the threshold.
OverThreshold(m, j) == {i \in 1..NRows(m) : m.rows[i][j] > Threshold}

\* np.sum(predictions[:, category] > 0.5) / len(predictions)
ClassifierRatio(m, j) == Divide(Cardinality(OverThreshold(m, j)), NRows(m))

\* An aggregation that selects the column of category before the match.
AggregateSelectedColumn(algorithm, m, category) ==
  IF ColumnIndex(m, category) = 0
  THEN Raise("IndexError")
  ELSE CASE algorithm = "regression" ->
              Return([kind |-> "tuple",
                      value |-> <<ColumnMeans(m)[ColumnIndex(m, category)]>>])
         [] algorithm = "classifier" ->
              Return([kind |-> "float",
                      value |-> ClassifierRatio(m, ColumnIndex(m, category))])
         [] OTHER -> Return([kind |-> "None", value |-> <<>>])

\* Lines 101-108 of calculate_prediction_metric: the match on the algorithm
\* read at line 98; falling out of the match returns None.
AggregatePredictions(algorithm, m, category) ==
  CASE algorithm = "regression" ->
         Return([kind |-> "tuple", value |-> ColumnMeans(m)])
    [] algorithm = "classifier" ->
         IF ColumnIndex(m, category) = 0
         THEN Raise("IndexError")
         ELSE Return([kind |-> "float",
                      value |-> ClassifierRatio(m, ColumnIndex(m, category))])
    [] OTHER -> Return([kind |-> "None", value |-> <<>>])

\* ------------------------------------------------------------------- state

VARIABLES
  file_path,         \* self.__file_path
  audio,             \* self.__audio, loaded once by __init__
  config,            \* the contents of the configuration file on disk
  rewrites,          \* how often another party has rewritten that file
  pc,                \* the next step of the call in progress, "idle" between calls
  op,                \* the public method called
  audio_feature,     \* the audio_feature argument
  category,          \* the category argument
  metric_config,     \* audio_config of calculate_prediction_metric (line 98)
  audio_config,      \* audio_config of calculate_predictions (line 59)
  embedding_model,   \* lines 62-68
  embeddings,        \* line 70
  prediction_model,  \* lines 73-79
  prediction_input,  \* what the prediction model was applied to at line 81
  predictions,       \* line 81
  metadata_pool,     \* the tag pool get_metadata read (line 22)
  result,            \* the value the call returned
  error,             \* the error the call raised, "none" when it raised none
  trace              \* the file reads and model constructions and runs of the call

persistent == <<file_path, audio>>
frame == <<op, audio_feature, category, metric_config, audio_config,
           embedding_model, embeddings, prediction_model, prediction_input,
           predictions, metadata_pool, result, error, trace>>
vars == <<file_path, audio, config, rewrites, pc, op, audio_feature, category,
          metric_config, audio_config, embedding_model, embeddings,
          prediction_model, prediction_input, predictions, metadata_pool,
          result, error, trace>>

\* The locals of a call that has not run a step yet.
ClearLocals ==
  /\ metric_config' = Unbound
  /\ audio_config' = Unbound
  /\ embedding_model' = Unbound
  /\ embeddings' = Unbound
  /\ prediction_model' = Unbound
  /\ prediction_input' = Unbound
  /\ predictions' = Unbound

\* __init__ (lines 7-10): the state after construction on some file.
Init ==
  /\ file_path \in FilePaths
  /\ audio = GetEssentiaAudio(file_path)
  /\ config \in Configs
  /\ rewrites = 0
  /\ pc = "idle"
  /\ op = "none"
  /\ audio_feature = "none"
  /\ category = DefaultCategory
  /\ metric_config = Unbound
  /\ audio_config = Unbound
  /\ embedding_model = Unbound
  /\ embeddings = Unbound
  /\ prediction_model = Unbound
  /\ prediction_input = Unbound
  /\ predictions = Unbound
  /\ metadata_pool = Unbound
  /\ result = Unbound
  /\ error = "none"
  /\ trace = <<>>

\* ----------------------------------------------------------------- actions

\* get_metadata() (lines 16-28), on whatever tag pool the file holds.
GetMetadata ==
  /\ pc = "idle"
  /\ \E pool \in Pools :
       /\ metadata_pool' = Bound(pool)
       /\ result' = Bound([kind |-> "dict", value |-> GetMetadataDict(pool)])
  /\ ClearLocals
  /\ op' = "get_metadata"
  /\ pc' = "done"
  /\ error' = "none"
  /\ trace' = <<"read_metadata">>
  /\ UNCHANGED <<persistent, config, rewrites, audio_feature, category>>

\* A caller enters calculate_prediction_metric(audio_feature, category).
CallMetric(f, c) ==
  /\ pc = "idle"
  /\ op' = "calculate_prediction_metric"
  /\ audio_feature' = f
  /\ category' = c
  /\ pc' = "metric_config"
  /\ ClearLocals
  /\ metadata_pool' = Unbound
  /\ result' = Unbound
  /\ error' = "none"
  /\ trace' = <<>>
  /\ UNCHANGED <<persistent, config, rewrites>>

\* A caller enters calculate_predictions(audio_feature).
CallPredictions(f) ==
  /\ pc = "idle"
  /\ op' = "calculate_predictions"
  /\ audio_feature' = f
  /\ pc' = "audio_config"
  /\ ClearLocals
  /\ metadata_pool' = Unbound
  /\ result' = Unbound
  /\ error' = "none"
  /\ trace' = <<>>
  /\ UNCHANGED <<persistent, config, rewrites, category>>

\* Line 98, and the call of line 99 when the lookup returned.
MetricConfig ==
  /\ pc = "metric_config"
  /\ LET r == GetAudioFeatureConfig(config, audio_feature) IN
       /\ metric_config' = r.value
       /\ error' = r.error
       /\ pc' = IF r.outcome = "return" THEN "audio_config" ELSE "raised"
  /\ trace' = Append(trace, "read_config")
  /\ config' = ConfigAfterLookup(config)
  /\ UNCHANGED <<persistent, rewrites, op, audio_feature, category,
                 audio_config, embedding_model, embeddings, prediction_model,
                 prediction_input, predictions, metadata_pool, result>>

\* Line 59.
AudioConfig ==
  /\ pc = "audio_config"
  /\ LET r == GetAudioFeatureConfig(config, audio_feature) IN
       /\ audio_config' = r.value
       /\ error' = r.error
       /\ pc' = IF r.outcome = "return" THEN "embedding_model" ELSE "raised"
  /\ trace' = Append(trace, "read_config")
  /\ config' = ConfigAfterLookup(config)
  /\ UNCHANGED <<persistent, rewrites, op, audio_feature, category,
                 metric_config, embedding_model, embeddings, prediction_model,
                 prediction_input, predictions, metadata_pool, result>>

\* Lines 62-68: a model is constructed when a case matches.
EmbeddingModel ==
  /\ pc = "embedding_model"
  /\ embedding_model' = SelectEmbeddingModel(audio_config[1])
  /\ trace' = IF embedding_model' = Unbound
               THEN trace
               ELSE Append(trace, "construct_embedding_model")
  /\ pc' = "embeddings"
  /\ UNCHANGED <<persistent, config, rewrites, op, audio_feature, category,
                 metric_config, audio_config, embeddings, prediction_model,
                 prediction_input, predictions, metadata_pool, result, error>>

\* The audio loaded again, at the loader's default sample rate.
ReloadedAudio == [audio EXCEPT !.sampleRate = 44100]

\* What line 70 applies the embedding model to.
EmbeddingInput == audio

\* Line 70: the embedding model applied to the audio; the name is unbound
\* when no case of the match bound it.
Embeddings ==
  /\ pc = "embeddings"
  /\ IF embedding_model = Unbound
     THEN /\ pc' = "raised"
          /\ error' = "UnboundLocalError"
          /\ UNCHANGED <<embeddings, trace>>
     ELSE /\ embeddings' = Bound([model |-> embedding_model[1],
                                  input |-> EmbeddingInput])
          /\ trace' = Append(trace, "run_embedding_model")
          /\ pc' = "prediction_model"
          /\ UNCHANGED error
  /\ UNCHANGED <<persistent, config, rewrites, op, audio_feature, category,
                 metric_config, audio_config, embedding_model, prediction_model,
                 prediction_input, predictions, metadata_pool, result>>

\* Lines 73-79.
PredictionModel ==
  /\ pc = "prediction_model"
  /\ prediction_model' = SelectPredictionModel(audio_config[1])
  /\ trace' = IF prediction_model' = Unbound
               THEN trace
               ELSE Append(trace, "construct_prediction_model")
  /\ pc' = "predictions"
  /\ UNCHANGED <<persistent, config, rewrites, op, audio_feature, category,
                 metric_config, audio_config, embedding_model, embeddings,
                 prediction_input, predictions, metadata_pool, result, error>>

\* What line 81 applies the prediction model to.
PredictionInput == embeddings

\* Lines 81-82: the prediction model applied to the embeddings gives one row
\* per segment; calculate_predictions returns it, to its caller or, inside
\* calculate_prediction_metric, to line 99.
Predictions ==
  /\ pc = "predictions"
  /\ IF prediction_model = Unbound
     THEN /\ pc' = "raised"
          /\ error' = "UnboundLocalError"
          /\ UNCHANGED <<prediction_input, predictions, result, trace>>
     ELSE /\ \E m \in Matrices : predictions' = Bound(m)
          /\ prediction_input' = PredictionInput
          /\ trace' = Append(trace, "run_prediction_model")
          /\ IF op = "calculate_predictions"
             THEN /\ result' = Bound([kind |-> "ndarray", value |-> predictions'[1]])
                  /\ pc' = "done"
             ELSE /\ result' = result
                  /\ pc' = "aggregate"
          /\ UNCHANGED error
  /\ UNCHANGED <<persistent, config, rewrites, op, audio_feature, category,
                 metric_config, audio_config, embedding_model, embeddings,
                 prediction_model, metadata_pool>>

\* Lines 101-108.
Aggregate ==
  /\ pc = "aggregate"
  /\ LET r == AggregatePredictions(metric_config[1].algorithm,
                                   predictions[1], category) IN
       /\ result' = r.value
       /\ error' = r.error
       /\ pc' = IF r.outcome = "return" THEN "done" ELSE "raised"
  /\ UNCHANGED <<persistent, config, rewrites, op, audio_feature, category,
                 metric_config, audio_config, embedding_model, embeddings,
                 prediction_model, prediction_input, predictions,
                 metadata_pool, trace>>

\* The call has returned or raised: its frame is gone, and the caller goes on.
Finish ==
  /\ pc \in {"done", "raised"}
  /\ pc' = "idle"
  /\ op' = "none"
  /\ audio_feature' = "none"
  /\ category' = DefaultCategory
  /\ ClearLocals
  /\ metadata_pool' = Unbound
  /\ result' = Unbound
  /\ error' = "none"
  /\ trace' = <<>>
  /\ UNCHANGED <<persistent, config, rewrites>>

\* Another party replaces the configuration file.
RewriteConfig ==
  /\ rewrites < MaxRewrites
  /\ \E c \in Configs : c # config /\ config' = c
  /\ rewrites' = rewrites + 1
  /\ UNCHANGED <<persistent, pc, frame>>

\* The calls and steps of the analyzer.
Step ==
  \/ GetMetadata
  \/ \E f \in Features, c \in Categories : CallMetric(f, c)
  \/ \E f \in Features : CallPredictions(f)
  \/ MetricConfig
  \/ AudioConfig
  \/ EmbeddingModel
  \/ Embeddings
  \/ PredictionModel
  \/ Predictions
  \/ Aggregate
  \/ Finish

\* Single-threaded use (spec section 5): nothing but the analyzer runs while
\* a caller uses it.
Next == Step

Spec == Init /\ [][Next]_vars

\* The configuration file rewritten at any moment, also during a call.
NextRace == Step \/ RewriteConfig

SpecRace == Init /\ [][NextRace]_vars

\* ------------------------------------------------------ what the claims use

Metric == "calculate_prediction_metric"

\* calculate_prediction_metric has passed line 99 and lines 101-108 have run.
Aggregated ==
  /\ op = Metric
  /\ pc \in {"done", "raised"}
  /\ predictions # Unbound

\* The algorithm of the entry read at line 98.
MetricAlgorithm == metric_config[1].algorithm

\* x is a float that is a number: a fraction with a positive denominator.
IsNumber(x) == x[2] > 0

\* The fraction x equals n / d, for d > 0.
EqualsQuotient(x, n, d) == IsNumber(x) /\ x[1] * d = x[2] * n

\* ------------------------------------------------------------------ claims

\* C1: for a classifier feature, a prediction matrix with at least one row and
\* a category that is a column of it, calculate_prediction_metric returns the
\* number of rows whose value in that column is strictly greater than 0.5
\* (5 tenths), divided by the number of rows; the result lies in [0, 1].
C1_ClassifierRatio ==
  (/\ Aggregated
   /\ MetricAlgorithm = "classifier"
   /\ NRows(predictions[1]) >= 1
   /\ category >= -predictions[1].ncols
   /\ category < predictions[1].ncols)
  => LET m == predictions[1]
         col == IF category >= 0 THEN category + 1 ELSE m.ncols + category + 1
         over == {i \in 1..Len(m.rows) : m.rows[i][col] > 5}
     IN /\ pc = "done"
        /\ result # Unbound
        /\ result[1].kind = "float"
        /\ EqualsQuotient(result[1].value, Cardinality(over), Len(m.rows))
        /\ 0 <= result[1].value[1]
        /\ result[1].value[1] <= result[1].value[2]

\* A classifier call returned the ratio 1/2 for a column that holds a value
\* equal to 0.5 and a value above it.
C1_Witness ==
  /\ Aggregated
  /\ pc = "done"
  /\ MetricAlgorithm = "classifier"
  /\ category = 1
  /\ predictions[1].ncols = 2
  /\ NRows(predictions[1]) = 2
  /\ predictions[1].rows[1][2] = 5
  /\ predictions[1].rows[2][2] = 6
  /\ result[1].value = <<1, 2>>

\* C2: for a regression feature calculate_prediction_metric returns a tuple
\* with one entry per column of the prediction matrix, and entry j is the
\* arithmetic mean of column j over all rows: the column's sum divided by the
\* number of rows (for a matrix without rows that quotient is 0/0, which
\* numpy gives as nan).
C2_RegressionMeans ==
  (Aggregated /\ MetricAlgorithm = "regression")
  => LET m == predictions[1]
         n == Len(m.rows)
     IN /\ pc = "done"
        /\ result # Unbound
        /\ result[1].kind = "tuple"
        /\ DOMAIN result[1].value = 1..m.ncols
        /\ \A j \in 1..m.ncols :
             IF n = 0
             THEN result[1].value[j] = NaN
             ELSE EqualsQuotient(result[1].value[j],
                                 SumSeq([i \in 1..n |-> m.rows[i][j]]), n)

\* A regression call returned the means 11/2 and 6 of a matrix of two rows
\* and two columns.
C2_Witness ==
  /\ Aggregated
  /\ pc = "done"
  /\ MetricAlgorithm = "regression"
  /\ predictions[1].rows = << <<5, 6>>, <<6, 6>> >>
  /\ result[1].value = << <<11, 2>>, <<6, 1>> >>

\* C3: for a feature name that is a key of the configuration file, the lookup
\* (line 98 or line 59) returns the entry stored under that key, with its
\* four fields as stored, does not raise, and leaves the file as it was.
C3_LookupReturnsEntry ==
  [][ (pc \in {"metric_config", "audio_config"} /\ audio_feature \in DOMAIN config)
      => /\ config' = config
         /\ pc' # "raised"
         /\ error' = "none"
         /\ LET got == IF pc = "metric_config" THEN metric_config' ELSE audio_config'
                stored == config[audio_feature]
            IN /\ got = Bound(stored)
               /\ got[1].model = stored.model
               /\ got[1].algorithm = stored.algorithm
               /\ got[1].embedding_graph_filename = stored.embedding_graph_filename
               /\ got[1].prediction_graph_filename = stored.prediction_graph_filename
    ]_vars

\* A lookup returned the entry of the requested key in a file whose other key
\* holds a different entry.
C3_Witness ==
  /\ pc = "embedding_model"
  /\ DOMAIN config = Features
  /\ \A f \in Features \ {audio_feature} : config[f] # config[audio_feature]
  /\ audio_config = Bound(config[audio_feature])

\* C4: whenever calculate_prediction_metric returns normally, it returns a
\* tuple of numbers when the feature's algorithm is regression and a float
\* ratio when it is classifier, and never None.
C4_ReturnsValue ==
  (op = Metric /\ pc = "done")
  => /\ result # Unbound
     /\ result[1].kind # "None"
     /\ MetricAlgorithm \in {"regression", "classifier"}
     /\ MetricAlgorithm = "regression" => result[1].kind = "tuple"
     /\ MetricAlgorithm = "classifier" => result[1].kind = "float"

\* A classifier call returned a float ratio.
C4_Witness ==
  /\ op = Metric
  /\ pc = "done"
  /\ MetricAlgorithm = "classifier"
  /\ result # Unbound
  /\ result[1].kind = "float"
  /\ result[1].value = <<1, 1>>

\* C5: get_metadata returns a dictionary whose keys are the parts of the
\* descriptor names after their last ".", that holds under each descriptor's
\* key the first value stored for that descriptor, and that has one pair for
\* every descriptor of the pool.
C5_MetadataKeepsEveryDescriptor ==
  (op = "get_metadata" /\ pc = "done")
  => LET pool == metadata_pool[1]
         metadata == result[1].value
     IN /\ DOMAIN metadata = {MetadataKey(pool[i].name) : i \in 1..Len(pool)}
        /\ \A i \in 1..Len(pool) :
             metadata[MetadataKey(pool[i].name)] = pool[i].values[1]
        /\ Cardinality(DOMAIN metadata) = Len(pool)

\* C6: for a regression feature the returned tuple is the same for every value
\* of category, also one that is no column index: the call returns, and what
\* it returns is what lines 101-108 give for any other category.
C6_CategoryIrrelevantForRegression ==
  (Aggregated /\ MetricAlgorithm = "regression")
  => /\ pc = "done"
     /\ \A c \in (-MaxCols - 1)..(MaxCols + 1) :
          AggregatePredictions(MetricAlgorithm, predictions[1], c)
            = Return(result[1])

\* A regression call returned for a category that is no column of the matrix.
C6_Witness ==
  /\ Aggregated
  /\ pc = "done"
  /\ MetricAlgorithm = "regression"
  /\ category >= predictions[1].ncols
  /\ NRows(predictions[1]) = 2

\* The entry calculate_predictions read at line 59.
Entry == audio_config[1]

\* C7: calculate_predictions dispatches on the entry of the feature: model
\* "musicnn" selects the MusiCNN embedding model with output node
\* "model/dense/BiasAdd" and "effnet" the Effnet-Discogs one with output node
\* "PartitionedCall:1", each loaded from model path + embedding_graph_filename;
\* algorithm "regression" selects the prediction model with output node
\* "model/Identity" and "classifier" the one with "model/Softmax", each loaded
\* from model path + prediction_graph_filename; either choice is made from its
\* own field alone.
C7_Dispatch ==
  /\ (pc = "embeddings" /\ Entry.model = "musicnn")
       => embedding_model =
            Bound([algo |-> "TensorflowPredictMusiCNN",
                   graphFilename |-> <<"./models/", Entry.embedding_graph_filename>>,
                   output |-> "model/dense/BiasAdd"])
  /\ (pc = "embeddings" /\ Entry.model = "effnet")
       => embedding_model =
            Bound([algo |-> "TensorflowPredictEffnetDiscogs",
                   graphFilename |-> <<"./models/", Entry.embedding_graph_filename>>,
                   output |-> "PartitionedCall:1"])
  /\ (pc = "predictions" /\ Entry.algorithm = "regression")
       => prediction_model =
            Bound([algo |-> "TensorflowPredict2D",
                   graphFilename |-> <<"./models/", Entry.prediction_graph_filename>>,
                   output |-> "model/Identity"])
  /\ (pc = "predictions" /\ Entry.algorithm = "classifier")
       => prediction_model =
            Bound([algo |-> "TensorflowPredict2D",
                   graphFilename |-> <<"./models/", Entry.prediction_graph_filename>>,
                   output |-> "model/Softmax"])
  /\ predictions # Unbound
       => /\ embeddings # Unbound
          /\ embeddings[1].model = embedding_model[1]
          /\ Entry.model \in {"musicnn", "effnet"}
          /\ Entry.algorithm \in {"regression", "classifier"}
          /\ embedding_model[1].output =
               (IF Entry.model = "musicnn" THEN "model/dense/BiasAdd"
                                          ELSE "PartitionedCall:1")
          /\ prediction_model[1].output =
               (IF Entry.algorithm = "regression" THEN "model/Identity"
                                                 ELSE "model/Softmax")

\* calculate_predictions returned for an entry of model effnet and algorithm
\* regression: the Effnet-Discogs embeddings went to the Identity node.
C7_Witness ==
  /\ op = "calculate_predictions"
  /\ pc = "done"
  /\ Entry.model = "effnet"
  /\ Entry.algorithm = "regression"
  /\ embedding_model[1].output = "PartitionedCall:1"
  /\ prediction_model[1].output = "model/Identity"

\* The steps of calculate_predictions, in the order the claim gives them.
StepOrder ==
  <<"read_config", "construct_embedding_model", "run_embedding_model",
    "construct_prediction_model", "run_prediction_model">>

\* The part of the trace that calculate_predictions wrote.
PredictionsTrace ==
  IF op = Metric /\ trace # <<>> THEN Tail(trace) ELSE trace

\* The steps of calculate_predictions so far are the first steps of the order,
\* the embeddings come from the audio of the file the analyzer was built on,
\* and the predictions come from the embeddings of this call.
OrderedAndFed ==
  /\ op \in {Metric, "calculate_predictions"}
       => /\ Len(PredictionsTrace) <= Len(StepOrder)
          /\ PredictionsTrace = SubSeq(StepOrder, 1, Len(PredictionsTrace))
  /\ embeddings # Unbound
       => /\ embeddings[1].input = audio
          /\ embeddings[1].input.file = file_path
          /\ embeddings[1].input.sampleRate = 16000
          /\ embeddings[1].input.resampleQuality = 4
          /\ embeddings[1].model = embedding_model[1]
  /\ predictions # Unbound
       => /\ embeddings # Unbound
          /\ prediction_input = embeddings
          /\ Len(PredictionsTrace) = Len(StepOrder)

\* C8: in every call of calculate_predictions the steps happen in the order
\* configuration lookup, embedding model selection, embedding extraction,
\* prediction model selection, prediction; the embedding model is applied to
\* the audio loaded at construction, which no step reloads or modifies, as no
\* step changes file_path; the prediction model is applied to the embeddings
\* of the same call.
C8_OrderAndAudio ==
  [][ /\ OrderedAndFed'
      /\ audio' = audio
      /\ file_path' = file_path ]_vars

\* calculate_predictions returned after its five steps.
C8_Witness ==
  /\ op = "calculate_predictions"
  /\ pc = "done"
  /\ trace = StepOrder
  /\ embeddings[1].input = audio
  /\ prediction_input = embeddings

\* The first lookup of the call in progress has run.
LookedUp ==
  \/ op = Metric /\ pc # "metric_config"
  \/ op = "calculate_predictions" /\ pc # "audio_config"

\* The call failed on the lookup alone: a KeyError, after one read of the
\* configuration file, with no model constructed or run and no value.
FailedOnLookup ==
  /\ pc = "raised"
  /\ error = "KeyError"
  /\ trace = <<"read_config">>
  /\ metric_config = Unbound
  /\ audio_config = Unbound
  /\ embedding_model = Unbound
  /\ embeddings = Unbound
  /\ prediction_model = Unbound
  /\ predictions = Unbound
  /\ result = Unbound

\* C9: when the requested feature is no key of the configuration file,
\* calculate_predictions and calculate_prediction_metric fail with the
\* lookup's KeyError before any model is constructed or run and without a
\* substituted entry or value; file path, audio and configuration file stay
\* as they were, and the failed call leaves the analyzer in the state it was
\* in before the call.
C9_UnknownFeatureFails ==
  [][ /\ (LookedUp /\ audio_feature \notin DOMAIN config)' => FailedOnLookup'
      /\ (pc = "raised" /\ error = "KeyError")
           => /\ pc' = "idle"
              /\ file_path' = file_path
              /\ audio' = audio
              /\ config' = config
              /\ audio' = GetEssentiaAudio(file_path')
              /\ <<op', audio_feature', category', result', error', trace'>>
                   = <<"none", "none", 0, Unbound, "none", <<>> >>
    ]_vars

\* calculate_prediction_metric raised the KeyError of an unknown feature.
C9_Witness ==
  /\ op = Metric
  /\ audio_feature \notin DOMAIN config
  /\ FailedOnLookup

\* C10: within one call of calculate_prediction_metric the aggregation mode
\* (mean or thresholded ratio) is the algorithm kind that calculate_predictions
\* used to select the output node of the prediction model, also when the
\* configuration file is rewritten between the two reads of the call.
C10_AggregationMatchesModel ==
  (op = Metric /\ pc = "done")
  => /\ result[1].kind = "tuple" <=> prediction_model[1].output = "model/Identity"
     /\ result[1].kind = "float" <=> prediction_model[1].output = "model/Softmax"
====
